---- MODULE Spec2Model ----
(***************************************************************************)
(* Model of chart_1_gpa_attendance.py: a single linear script that loads   *)
(* a CSV of student records, drops incomplete rows, bins GPA, builds and   *)
(* styles a scatter plot, annotates it with the Pearson correlation of     *)
(* GPA and ATTENDANCE, opens a viewer and writes an HTML and a PNG file.   *)
(*                                                                         *)
(* Numbers are fixed point: GPA is held in tenths (2.5 is 25), ATTENDANCE  *)
(* in whole percent.  A missing numeric cell is NaN, a missing text cell   *)
(* is NoText.  The correlation is kept exactly, as the three sums it is    *)
(* the quotient of: r = sxy / sqrt(sxx * syy).                             *)
(***************************************************************************)
EXTENDS Integers, Sequences, FiniteSets

VARIABLES
    csv,            \* content of cleaned_data/master_dataset.csv
    dirExists,      \* whether the directory charts/ exists
    html,           \* content of charts/chart_1_gpa_attendance.html (<<>>: no file)
    png,            \* content of charts/chart_1_gpa_attendance.png  (<<>>: no file)
    run,            \* number of the current execution of the script
    prev,           \* the two files as the previous execution left them
    pc,             \* the statement the current execution is at
    trace,          \* the steps the current execution has completed, in order
    df,             \* the loaded table
    df_chart1,      \* the filtered table
    GPA_CATEGORY,   \* the derived column of df_chart1
    stdout,         \* what the current execution has printed
    fig,            \* the figure object
    correlation,    \* the computed correlation
    shown           \* whether the interactive viewer was opened

vars == <<csv, dirExists, html, png, run, prev, pc, trace, df, df_chart1,
          GPA_CATEGORY, stdout, fig, correlation, shown>>

----------------------------------------------------------------------------
(* Bounds of the model *)

MaxRows == 2

MaxCorrRows == 3

MaxRuns == 2

NumDivIds == 2

----------------------------------------------------------------------------
(* Values *)

\* a missing numeric cell (every real value of the model is >= 0)
NaN == -1

\* a missing text cell
NoText == ""

\* a missing category (pd.cut gives NaN outside every bin)
NoCategory == "NaN"

\* bins=[0, 2.5, 3.5, 5.0], in tenths
BinEdges == <<0, 25, 35, 50>>

BinLabels == <<"At Risk (<2.5)", "Satisfactory (2.5-3.5)", "Excellent (>3.5)">>

Row(g, a, n, h) ==
    [GPA |-> g, ATTENDANCE |-> a, NATIONALITY_STATUS |-> n, SELF_STUDY_HRS |-> h]

Rows(G, A, N, H) == {Row(g, a, n, h) : g \in G, a \in A, n \in N, h \in H}

TablesOf(R, n) == UNION {[1..k -> R] : k \in 0..n}

----------------------------------------------------------------------------
(* Sequence helpers *)

RECURSIVE SumSeq(_)
SumSeq(s) == IF s = <<>> THEN 0 ELSE Head(s) + SumSeq(Tail(s))

Column(t, name) == [i \in 1..Len(t) |-> t[i][name]]

Products(x, y) == [i \in 1..Len(x) |-> x[i] * y[i]]

----------------------------------------------------------------------------
(* df.dropna(subset=['GPA', 'ATTENDANCE', 'NATIONALITY_STATUS']).copy() *)

\* dropna() with no subset: a row with any missing cell is dropped
CompleteEveryColumn(r) ==
    /\ r.GPA # NaN
    /\ r.ATTENDANCE # NaN
    /\ r.NATIONALITY_STATUS # NoText
    /\ r.SELF_STUDY_HRS # NaN

\* dropna(subset=['GPA', 'ATTENDANCE']): the status is not looked at
CompleteGpaAttendance(r) == r.GPA # NaN /\ r.ATTENDANCE # NaN

\* a row dropna keeps: none of the subset's cells is missing
Complete(r) ==
    /\ r.GPA # NaN
    /\ r.ATTENDANCE # NaN
    /\ r.NATIONALITY_STATUS # NoText

RECURSIVE dropna(_)
dropna(t) ==
    IF t = <<>> THEN <<>>
    ELSE IF Complete(Head(t)) THEN <<Head(t)>> \o dropna(Tail(t))
         ELSE dropna(Tail(t))

----------------------------------------------------------------------------
(* pd.cut(x, bins, labels): right=True, include_lowest=False, so bin i is  *)
(* the interval (bins[i], bins[i+1]], and a value in no bin gets NaN       *)

InBin(x, i) == BinEdges[i] < x /\ x <= BinEdges[i + 1]

cut(x) ==
    IF \E i \in 1..Len(BinLabels) : InBin(x, i)
    THEN BinLabels[CHOOSE i \in 1..Len(BinLabels) : InBin(x, i)]
    ELSE NoCategory

cutColumn(t) == [i \in 1..Len(t) |-> cut(t[i].GPA)]

----------------------------------------------------------------------------
(* df_chart1['NATIONALITY_STATUS'].value_counts(): dropna=True, one entry  *)
(* per value that occurs, missing values not counted                       *)

CountOf(t, s) == Cardinality({i \in 1..Len(t) : t[i].NATIONALITY_STATUS = s})

value_counts(t) ==
    [s \in {t[i].NATIONALITY_STATUS : i \in 1..Len(t)} \ {NoText} |-> CountOf(t, s)]

----------------------------------------------------------------------------
(* Series.corr (Pearson).  With n rows, r = sxy / sqrt(sxx * syy) where    *)
(*   sxy = n*Sum(x*y) - Sum(x)*Sum(y), sxx = n*Sum(x*x) - Sum(x)^2, etc.   *)
(* It is NaN when there are fewer than two rows or a column is constant.   *)

\* the sums without the row count
SxyNoCount(x, y) == SumSeq(Products(x, y)) - SumSeq(x) * SumSeq(y)

Sxy(x, y) == Len(x) * SumSeq(Products(x, y)) - SumSeq(x) * SumSeq(y)

\* an undefined correlation reported as the number 0
corrZeroWhenUndefined(x, y) ==
    LET sxx == Sxy(x, x)
        syy == Sxy(y, y)
    IN  IF Len(x) < 2 \/ sxx = 0 \/ syy = 0
        THEN [computed |-> TRUE, nan |-> FALSE, sxy |-> 0, sxx |-> 1, syy |-> 1]
        ELSE [computed |-> TRUE, nan |-> FALSE, sxy |-> Sxy(x, y), sxx |-> sxx, syy |-> syy]

corr(x, y) ==
    LET sxx == Sxy(x, x)
        syy == Sxy(y, y)
    IN  IF Len(x) < 2 \/ sxx = 0 \/ syy = 0
        THEN [computed |-> TRUE, nan |-> TRUE, sxy |-> 0, sxx |-> 0, syy |-> 0]
        ELSE [computed |-> TRUE, nan |-> FALSE, sxy |-> Sxy(x, y), sxx |-> sxx, syy |-> syy]

NotComputed == [computed |-> FALSE, nan |-> FALSE, sxy |-> 0, sxx |-> 0, syy |-> 0]

\* abs(correlation) > 0.5; a comparison with NaN is False
AbsAboveHalf(r) == ~r.nan /\ 4 * r.sxy * r.sxy > r.sxx * r.syy

\* the threshold taken as abs(correlation) >= 0.5
StrengthWordAtLeastHalf(r) ==
    IF ~r.nan /\ 4 * r.sxy * r.sxy >= r.sxx * r.syy THEN "Strong" ELSE "Moderate"

\* {"Strong" if abs(correlation) > 0.5 else "Moderate"} positive relationship
StrengthWord(r) == IF AbsAboveHalf(r) THEN "Strong" ELSE "Moderate"

DirectionWord(r) == "positive"

AnnotationOf(r) ==
    [value |-> r, strength |-> StrengthWord(r), direction |-> DirectionWord(r)]

NoAnnotation == [value |-> NotComputed, strength |-> "", direction |-> ""]

----------------------------------------------------------------------------
(* The figure and its two renderings *)

NoFigure == [built |-> FALSE, data |-> <<>>, styled |-> FALSE,
             annotated |-> FALSE, annotation |-> NoAnnotation]

\* px.scatter(df_chart1, x='ATTENDANCE', y='GPA', color=..., size=..., ...)
scatter(t) == [NoFigure EXCEPT !.built = TRUE, !.data = t]

\* the div id to_html generates for each document it writes (a fresh uuid4)
DivIds == 1..NumDivIds

\* the document fig.write_html writes
to_html(f, id) == [kind |-> "html", div |-> id, width |-> 1000, height |-> 600,
                   scale |-> 1, figure |-> f]

\* the image fig.write_image(..., width=1200, height=700, scale=2) writes
to_image(f) == [kind |-> "png", div |-> 0, width |-> 1200, height |-> 700,
                scale |-> 2, figure |-> f]

\* open(path, 'a'): what is written follows what the file held
AppendTo(old, doc) == Append(old, doc)

\* open(path, 'w'): the file is truncated, then holds what was written
Overwrite(old, doc) == <<doc>>

----------------------------------------------------------------------------
(* Console output *)

Line(msg, n, counts) == [msg |-> msg, n |-> n, counts |-> counts]

Printed(msg) == \E i \in 1..Len(stdout) : stdout[i].msg = msg

----------------------------------------------------------------------------
(* Input tables *)

GPAValues == {0, 20, 25, 30, 35, 40, 50, 55}

\* rows with every combination of present and missing cells
MissingRows == Rows({NaN, 30}, {NaN, 80}, {NoText, "SG Citizen", "Foreigner"}, {NaN, 5})

\* complete rows over the GPA values at, between and outside the bin edges
GpaRows == Rows(GPAValues, {80}, {"SG PR"}, {5})

\* complete rows spread over a grid, for the correlation
CorrRows == Rows({20, 30, 40}, {60, 80, 100}, {"SG Citizen"}, {5})

\* attendance = 50 + 10*i, GPA = 2.0 + 0.1*i for i = 0..9
LinearSample == [k \in 1..10 |-> Row(20 + (k - 1), 50 + 10 * (k - 1), "SG Citizen", 5)]

\* three complete rows, one of each nationality status
StatusSample == <<Row(20, 70, "SG Citizen", 5), Row(30, 80, "SG PR", NaN),
                  Row(40, 90, "Foreigner", 5)>>

Tables ==
    TablesOf(MissingRows, MaxRows) \cup TablesOf(GpaRows, MaxRows)
        \cup TablesOf(CorrRows, MaxCorrRows) \cup {LinearSample, StatusSample}

RerunTables == TablesOf(MissingRows, 1) \cup {StatusSample}

----------------------------------------------------------------------------
(* The script, statement by statement *)

Step(name, next) ==
    /\ pc = name
    /\ pc' = next
    /\ trace' = Append(trace, name)

Fail(name) ==
    /\ pc = name
    /\ pc' = "failed"
    /\ UNCHANGED trace

InitWith(T) ==
    /\ csv \in T
    /\ dirExists \in BOOLEAN
    /\ html = <<>>
    /\ png = <<>>
    /\ run = 1
    /\ prev = [completed |-> FALSE, html |-> <<>>, png |-> <<>>]
    /\ pc = "load"
    /\ trace = <<>>
    /\ df = <<>>
    /\ df_chart1 = <<>>
    /\ GPA_CATEGORY = <<>>
    /\ stdout = <<>>
    /\ fig = NoFigure
    /\ correlation = NotComputed
    /\ shown = FALSE

Init == InitWith(Tables)

InitRerun == InitWith(RerunTables)

\* df = pd.read_csv('cleaned_data/master_dataset.csv')
Load ==
    /\ Step("load", "filter")
    /\ df' = csv
    /\ UNCHANGED <<csv, dirExists, html, png, run, prev, df_chart1, GPA_CATEGORY,
                   stdout, fig, correlation, shown>>

\* read_csv raises: the input file does not exist
LoadFails ==
    /\ Fail("load")
    /\ UNCHANGED <<csv, dirExists, html, png, run, prev, df, df_chart1, GPA_CATEGORY,
                   stdout, fig, correlation, shown>>

\* df_chart1 = df.dropna(subset=[...]).copy()
Filter ==
    /\ Step("filter", "derive")
    /\ df_chart1' = dropna(df)
    /\ UNCHANGED <<csv, dirExists, html, png, run, prev, df, GPA_CATEGORY,
                   stdout, fig, correlation, shown>>

\* df_chart1['GPA_CATEGORY'] = pd.cut(df_chart1['GPA'], bins=..., labels=...)
Derive ==
    /\ Step("derive", "summary")
    /\ GPA_CATEGORY' = cutColumn(df_chart1)
    /\ UNCHANGED <<csv, dirExists, html, png, run, prev, df, df_chart1,
                   stdout, fig, correlation, shown>>

\* the two print calls after the derivation
Summary ==
    /\ Step("summary", "build")
    /\ stdout' = stdout \o <<Line("Chart 1 Data", Len(df_chart1), <<>>),
                             Line("Nationality breakdown", 0, value_counts(df_chart1))>>
    /\ UNCHANGED <<csv, dirExists, html, png, run, prev, df, df_chart1, GPA_CATEGORY,
                   fig, correlation, shown>>

\* fig = px.scatter(df_chart1, ...)
Build ==
    /\ Step("build", "style")
    /\ fig' = scatter(df_chart1)
    /\ UNCHANGED <<csv, dirExists, html, png, run, prev, df, df_chart1, GPA_CATEGORY,
                   stdout, correlation, shown>>

\* px.scatter raises (the trendline's fitting library is absent, a size is invalid)
BuildFails ==
    /\ Fail("build")
    /\ UNCHANGED <<csv, dirExists, html, png, run, prev, df, df_chart1, GPA_CATEGORY,
                   stdout, fig, correlation, shown>>

\* fig.update_layout(...); fig.update_xaxes(...); fig.update_yaxes(...)
Style ==
    /\ Step("style", "correlate")
    /\ fig' = [fig EXCEPT !.styled = TRUE]
    /\ UNCHANGED <<csv, dirExists, html, png, run, prev, df, df_chart1, GPA_CATEGORY,
                   stdout, correlation, shown>>

\* correlation = df_chart1['GPA'].corr(df_chart1['ATTENDANCE'])
Correlate ==
    /\ Step("correlate", "annotate")
    /\ correlation' = corr(Column(df_chart1, "GPA"), Column(df_chart1, "ATTENDANCE"))
    /\ UNCHANGED <<csv, dirExists, html, png, run, prev, df, df_chart1, GPA_CATEGORY,
                   stdout, fig, shown>>

\* fig.add_annotation(text=f'...{correlation:.3f}...{"Strong" if ...} positive relationship')
Annotate ==
    /\ Step("annotate", "show")
    /\ fig' = [fig EXCEPT !.annotated = TRUE, !.annotation = AnnotationOf(correlation)]
    /\ UNCHANGED <<csv, dirExists, html, png, run, prev, df, df_chart1, GPA_CATEGORY,
                   stdout, correlation, shown>>

\* fig.show()
Show ==
    /\ Step("show", "write_html")
    /\ shown' = TRUE
    /\ UNCHANGED <<csv, dirExists, html, png, run, prev, df, df_chart1, GPA_CATEGORY,
                   stdout, fig, correlation>>

\* the viewer's error is swallowed and the script goes on
ShowErrorIgnored ==
    /\ pc = "show"
    /\ pc' = "write_html"
    /\ UNCHANGED <<csv, dirExists, html, png, run, prev, trace, df, df_chart1,
                   GPA_CATEGORY, stdout, fig, correlation, shown>>

\* fig.show() raises (no renderer is available)
ShowFails ==
    /\ Fail("show")
    /\ UNCHANGED <<csv, dirExists, html, png, run, prev, df, df_chart1, GPA_CATEGORY,
                   stdout, fig, correlation, shown>>

\* fig.write_html('charts/chart_1_gpa_attendance.html')
WriteHtml ==
    /\ dirExists
    /\ Step("write_html", "write_image")
    /\ \E id \in DivIds : html' = Overwrite(html, to_html(fig, id))
    /\ UNCHANGED <<csv, dirExists, png, run, prev, df, df_chart1, GPA_CATEGORY,
                   stdout, fig, correlation, shown>>

\* the directory is created when it is missing, and the file written
WriteHtmlMakesDir ==
    /\ ~dirExists
    /\ Step("write_html", "write_image")
    /\ dirExists' = TRUE
    /\ \E id \in DivIds : html' = Overwrite(html, to_html(fig, id))
    /\ UNCHANGED <<csv, png, run, prev, df, df_chart1, GPA_CATEGORY,
                   stdout, fig, correlation, shown>>

\* write_html raises: the directory charts/ does not exist
WriteHtmlFails ==
    /\ ~dirExists
    /\ Fail("write_html")
    /\ UNCHANGED <<csv, dirExists, html, png, run, prev, df, df_chart1, GPA_CATEGORY,
                   stdout, fig, correlation, shown>>

\* fig.write_image('charts/chart_1_gpa_attendance.png', width=1200, height=700, scale=2)
WriteImage ==
    /\ dirExists
    /\ Step("write_image", "success")
    /\ png' = Overwrite(png, to_image(fig))
    /\ UNCHANGED <<csv, dirExists, html, run, prev, df, df_chart1, GPA_CATEGORY,
                   stdout, fig, correlation, shown>>

\* write_image raises (the static image engine is absent)
WriteImageFails ==
    /\ Fail("write_image")
    /\ UNCHANGED <<csv, dirExists, html, png, run, prev, df, df_chart1, GPA_CATEGORY,
                   stdout, fig, correlation, shown>>

\* print("\n Chart 1 created successfully!") and the three lines naming the files
Success ==
    /\ Step("success", "insights")
    /\ stdout' = Append(stdout, Line("Chart 1 created successfully", 0, <<>>))
    /\ UNCHANGED <<csv, dirExists, html, png, run, prev, df, df_chart1, GPA_CATEGORY,
                   fig, correlation, shown>>

\* the closing print calls
Insights ==
    /\ Step("insights", "done")
    /\ stdout' = Append(stdout, Line("KEY INSIGHTS FOR POWERPOINT", 0, <<>>))
    /\ UNCHANGED <<csv, dirExists, html, png, run, prev, df, df_chart1, GPA_CATEGORY,
                   fig, correlation, shown>>

\* the script is started again on the same input: a new process, the same files
Rerun ==
    /\ pc \in {"done", "failed"}
    /\ run < MaxRuns
    /\ run' = run + 1
    /\ prev' = [completed |-> pc = "done", html |-> html, png |-> png]
    /\ pc' = "load"
    /\ trace' = <<>>
    /\ df' = <<>>
    /\ df_chart1' = <<>>
    /\ GPA_CATEGORY' = <<>>
    /\ stdout' = <<>>
    /\ fig' = NoFigure
    /\ correlation' = NotComputed
    /\ shown' = FALSE
    /\ UNCHANGED <<csv, dirExists, html, png>>

Next ==
    \/ Load \/ LoadFails \/ Filter \/ Derive \/ Summary
    \/ Build \/ BuildFails \/ Style \/ Correlate \/ Annotate
    \/ Show \/ ShowFails \/ WriteHtml \/ WriteHtmlFails
    \/ WriteImage \/ WriteImageFails \/ Success \/ Insights

NextRerun == Next \/ Rerun

Spec == Init /\ [][Next]_vars

SpecRerun == InitRerun /\ [][NextRerun]_vars

----------------------------------------------------------------------------
(* Properties *)

\* the current execution has completed the step
Done(step) == \E i \in 1..Len(trace) : trace[i] = step

\* the positions of the input rows that have GPA, ATTENDANCE and
\* NATIONALITY_STATUS all present
KeptPositions ==
    {i \in 1..Len(csv) : /\ csv[i].GPA # NaN
                         /\ csv[i].ATTENDANCE # NaN
                         /\ csv[i].NATIONALITY_STATUS # NoText}

\* the k-th smallest of the kept positions
KthKept(k) ==
    CHOOSE i \in KeptPositions : Cardinality({j \in KeptPositions : j <= i}) = k

\* C1: the filtered table holds exactly the input rows whose GPA, ATTENDANCE
\* and NATIONALITY_STATUS are all present, in their original order; what
\* other cells a row is missing plays no part.
C1_FilterKeepsCompleteRows ==
    Done("filter") =>
        /\ Len(df_chart1) = Cardinality(KeptPositions)
        /\ \A k \in 1..Len(df_chart1) : df_chart1[k] = csv[KthKept(k)]

\* C1 witness: the filter has run on a table of which it dropped a row that
\* misses only its status and kept a row that misses only its study hours
C1_Witness ==
    /\ Done("filter")
    /\ \E i \in 1..Len(csv) :
          /\ csv[i].NATIONALITY_STATUS = NoText
          /\ csv[i].GPA # NaN /\ csv[i].ATTENDANCE # NaN
    /\ \E k \in 1..Len(df_chart1) : df_chart1[k].SELF_STUDY_HRS = NaN
    /\ Len(df_chart1) < Len(csv)

\* C2 as claimed: every retained row is labelled "At Risk (<2.5)" when its GPA
\* is below 2.5, "Satisfactory (2.5-3.5)" when it is from 2.5 to 3.5 and
\* "Excellent (>3.5)" when it is above 3.5.
C2_LabelMatchesItsRange ==
    Done("derive") =>
        \A k \in 1..Len(df_chart1) :
            LET g == df_chart1[k].GPA
            IN  /\ g < 25 => GPA_CATEGORY[k] = "At Risk (<2.5)"
                /\ (25 <= g /\ g <= 35) => GPA_CATEGORY[k] = "Satisfactory (2.5-3.5)"
                /\ g > 35 => GPA_CATEGORY[k] = "Excellent (>3.5)"

\* the number of rows of t with a present status
RECURSIVE SumCounts(_, _)
SumCounts(f, S) ==
    IF S = {} THEN 0
    ELSE LET s == CHOOSE x \in S : TRUE IN f[s] + SumCounts(f, S \ {s})

\* the breakdown and the row count that were printed
PrintedBreakdown ==
    (CHOOSE i \in 1..Len(stdout) : stdout[i].msg = "Nationality breakdown")

PrintedRowCount ==
    (CHOOSE i \in 1..Len(stdout) : stdout[i].msg = "Chart 1 Data")

\* C3: the printed breakdown counts the filtered rows only: it has no entry
\* for a missing status, each entry is the number of complete input rows of
\* that status, and the entries sum to the printed row count.
C3_BreakdownCountsFilteredRows ==
    Printed("Nationality breakdown") =>
        LET counts == stdout[PrintedBreakdown].counts
            n == stdout[PrintedRowCount].n
        IN  /\ NoText \notin DOMAIN counts
            /\ \A s \in DOMAIN counts :
                  counts[s] = Cardinality({i \in KeptPositions : csv[i].NATIONALITY_STATUS = s})
            /\ SumCounts(counts, DOMAIN counts) = n
            /\ n = Cardinality(KeptPositions)

\* C3 witness: a breakdown was printed for an input in which one row misses
\* its status and another row is complete
C3_Witness ==
    /\ Printed("Nationality breakdown")
    /\ \E i \in 1..Len(csv) :
          /\ csv[i].NATIONALITY_STATUS = NoText
          /\ csv[i].GPA # NaN /\ csv[i].ATTENDANCE # NaN
    /\ stdout[PrintedRowCount].n >= 1

\* C10 as claimed: every retained row whose GPA is from 0 to 5 inclusive has
\* one of the three labels.
C10_EveryGpaInRangeLabelled ==
    Done("derive") =>
        \A k \in 1..Len(df_chart1) :
            (0 <= df_chart1[k].GPA /\ df_chart1[k].GPA <= 50) =>
                \E i \in 1..Len(BinLabels) : GPA_CATEGORY[k] = BinLabels[i]

\* C4: the annotation says "Strong" exactly when |r| > 0.5 and "Moderate"
\* otherwise, |r| = 0.5 included, and its direction word is "positive"
\* whatever the sign of r.  (|r| > 0.5 is 4 * sxy^2 > sxx * syy.)
C4_StrengthRuleAndFixedDirection ==
    fig.annotated =>
        LET r == fig.annotation.value
            above == ~r.nan /\ 4 * (r.sxy * r.sxy) > r.sxx * r.syy
        IN  /\ r = correlation
            /\ above => fig.annotation.strength = "Strong"
            /\ ~above => fig.annotation.strength = "Moderate"
            /\ fig.annotation.direction = "positive"

\* C4 witness: an annotation for r = -0.5 exactly: "Moderate", "positive"
C4_Witness ==
    /\ fig.annotated
    /\ ~correlation.nan
    /\ correlation.sxy < 0
    /\ 4 * (correlation.sxy * correlation.sxy) = correlation.sxx * correlation.syy
    /\ fig.annotation.strength = "Moderate"
    /\ fig.annotation.direction = "positive"

\* the rows of t lie on one line of positive slope: two of them differ, the
\* one with the higher attendance having the higher GPA, and every row is
\* collinear with those two
PerfectlyLinearPositive(t) ==
    \E i, j \in 1..Len(t) :
        /\ t[i].ATTENDANCE < t[j].ATTENDANCE
        /\ t[i].GPA < t[j].GPA
        /\ \A k \in 1..Len(t) :
              (t[k].GPA - t[i].GPA) * (t[j].ATTENDANCE - t[i].ATTENDANCE)
                  = (t[j].GPA - t[i].GPA) * (t[k].ATTENDANCE - t[i].ATTENDANCE)

\* C5: when the filtered rows are perfectly linear with positive slope the
\* correlation is 1 (sxy > 0 and sxy^2 = sxx * syy) and the annotation reads
\* "Strong positive relationship".
C5_LinearDataCorrelationOne ==
    (Done("correlate") /\ PerfectlyLinearPositive(df_chart1)) =>
        /\ ~correlation.nan
        /\ correlation.sxy > 0
        /\ correlation.sxy * correlation.sxy = correlation.sxx * correlation.syy
        /\ fig.annotated =>
              /\ fig.annotation.strength = "Strong"
              /\ fig.annotation.direction = "positive"

\* C5 witness: the annotation was made for attendance = 50 + 10*i,
\* GPA = 2.0 + 0.1*i, i = 0..9
C5_Witness ==
    /\ csv = LinearSample
    /\ df_chart1 = LinearSample
    /\ fig.annotated
    /\ fig.annotation.strength = "Strong"

\* the filter has run and kept no row
FilteredEmpty == Done("filter") /\ df_chart1 = <<>>

\* C6 as claimed: with an empty filtered table the script fails before the
\* export: no annotation is built from the undefined correlation, neither
\* file is written and the success message is not printed.
C6_EmptyTableIsFatal ==
    FilteredEmpty =>
        /\ ~fig.annotated
        /\ pc \notin {"show", "write_html", "write_image", "success", "insights", "done"}
        /\ html = <<>> /\ png = <<>>
        /\ ~Printed("Chart 1 created successfully")

\* the steps of the script in the order of its statements
Steps == <<"load", "filter", "derive", "summary", "build", "style", "correlate",
           "annotate", "show", "write_html", "write_image", "success", "insights">>

\* the step a failed execution failed at: the one after the last it completed
FailedAt(step) ==
    /\ pc = "failed"
    /\ Len(trace) < Len(Steps)
    /\ Steps[Len(trace) + 1] = step

\* C6 amended: with an empty filtered table the correlation is NaN and
\* nothing fails on it: the annotation is built from the NaN and says
\* "Moderate positive relationship", the script goes on to the viewer, and
\* an execution that ends at "done" has written both files and printed
\* the success message.
C6_EmptyTableGivesNaN ==
    FilteredEmpty =>
        /\ correlation.computed => correlation.nan
        /\ Done("correlate") => correlation.computed
        /\ fig.annotated =>
              /\ fig.annotation.value.nan
              /\ fig.annotation.strength = "Moderate"
              /\ fig.annotation.direction = "positive"
        /\ Done("annotate") => fig.annotated
        /\ pc = "failed" =>
              \/ FailedAt("build") \/ FailedAt("show")
              \/ FailedAt("write_html") \/ FailedAt("write_image")
        /\ pc = "done" =>
              /\ Len(html) = 1 /\ html[1].figure.annotation.value.nan
              /\ Len(png) = 1 /\ png[1].figure.annotation.value.nan
              /\ Printed("Chart 1 created successfully")

\* C6 witness: an execution whose filtered table was empty, although the
\* input had rows, ran to its end with both files written
C6_Witness ==
    /\ FilteredEmpty
    /\ csv # <<>>
    /\ pc = "done"
    /\ html # <<>> /\ png # <<>>
    /\ Printed("Chart 1 created successfully")

\* an execution has ended normally after an earlier one that had too
BothRunsCompleted == pc = "done" /\ prev.completed

\* C7 as claimed: after a second complete execution on the same input the
\* two files hold what they held after the first.
C7_SecondRunSameContents ==
    BothRunsCompleted => (html = prev.html /\ png = prev.png)

\* two HTML documents that differ at most in the generated div id
SameButDivId(a, b) == [a EXCEPT !.div = 0] = [b EXCEPT !.div = 0]

\* C7 amended: every write replaces the file, so a file never holds more
\* than one document; after a second complete execution on the same input
\* the PNG holds what it held after the first, and the HTML holds one
\* document that equals the first execution's except for the div id that
\* write_html generates anew on every call.
C7_SecondRunReplacesFiles ==
    /\ Len(html) <= 1
    /\ Len(png) <= 1
    /\ BothRunsCompleted =>
          /\ Len(html) = 1 /\ Len(prev.html) = 1
          /\ SameButDivId(html[1], prev.html[1])
          /\ png = prev.png /\ Len(png) = 1

\* C7 witness: a second complete execution, on an input with retained rows
C7_Witness ==
    /\ BothRunsCompleted
    /\ run = 2
    /\ df_chart1 # <<>>
    /\ html # <<>> /\ png # <<>>

\* C8 (state part): without the directory charts/ neither file exists, the
\* script is never past the HTML write, no success message is printed, and
\* a failure at the HTML write comes after the viewer was opened
C8_NoDirState ==
    ~dirExists =>
        /\ html = <<>> /\ png = <<>>
        /\ pc \notin {"write_image", "success", "insights", "done"}
        /\ ~Done("write_html") /\ ~Done("write_image")
        /\ ~Printed("Chart 1 created successfully")
        /\ pc = "write_html" => shown
        /\ FailedAt("write_html") => shown

\* C8 (step part): a missing directory stays missing, and once the script
\* has failed it takes no further step (no retry)
C8_NoDirStep ==
    /\ ~dirExists => ~dirExists'
    /\ (~dirExists /\ pc = "failed") => UNCHANGED vars

\* C8: if charts/ does not exist the script fails at the HTML write, after
\* the viewer was opened: neither file is created, the directory is not
\* created, nothing is retried and the success message is not printed.
C8_MissingDirIsFatal == [](C8_NoDirState) /\ [][C8_NoDirStep]_vars

\* C8 witness: the script has failed at the HTML write, the directory
\* missing and the viewer opened
C8_Witness ==
    /\ ~dirExists
    /\ FailedAt("write_html")
    /\ shown

\* s is an initial part of t
IsPrefix(s, t) == Len(s) <= Len(t) /\ \A i \in 1..Len(s) : s[i] = t[i]

\* C9: in every execution the steps happen in the order of Steps and a
\* failure ends the execution: the HTML file is written only after the
\* viewer was opened, the PNG only after the HTML write completed, and the
\* success message is printed only after both were written in that
\* execution; what a step does is done exactly when the step has completed.
C9_StepsInOrder ==
    /\ IsPrefix(trace, Steps)
    /\ pc # "failed" => pc = (IF Len(trace) < Len(Steps) THEN Steps[Len(trace) + 1] ELSE "done")
    /\ shown <=> Done("show")
    /\ fig.built <=> Done("build")
    /\ fig.annotated <=> Done("annotate")
    /\ html # prev.html => (Done("write_html") /\ shown)
    /\ png # prev.png => (Done("write_image") /\ Done("write_html"))
    /\ Done("write_html") => (shown /\ Len(html) = 1 /\ html[1].figure = fig)
    /\ Done("write_image") => (Done("write_html") /\ Len(png) = 1 /\ png[1].figure = fig)
    /\ Printed("Chart 1 created successfully") <=> Done("success")
    /\ Done("success") => (Done("write_html") /\ Done("write_image"))

\* C9 witness: a second execution failed at the PNG write: it has written
\* the HTML file and printed no success message
C9_Witness ==
    /\ run = 2
    /\ FailedAt("write_image")
    /\ Done("write_html")
    /\ html # <<>>
    /\ ~Printed("Chart 1 created successfully")

====
